---- MODULE Spec2Model ----
(***************************************************************************)
(* A model of scripts/convert-odcs-atlan.py: the path resolver get_value,  *)
(* the path writer set_value, the value transform handle_new_value, the    *)
(* rule interpreter build_contract, the SLA pass process_sla, the          *)
(* orchestrator run and extract_and_append_config; and of the workers of   *)
(* scripts/apply_data_contracts.py against the remote catalog.             *)
(*                                                                         *)
(* Python values are modelled with their identity.  A value is a scalar    *)
(* (None, a string, an integer) or a reference to an object of the heap;   *)
(* an object is a dict or a list whose entries are values.  Two references *)
(* to one address are one mutable object, as in Python.                    *)
(*                                                                         *)
(* A Python string is the sequence of its tokens: a name (a run of         *)
(* characters that holds neither "." nor "[]"), the separator "." or the   *)
(* list marker "[]".  split, endswith, replace and startswith are computed *)
(* on the tokens.  A dict key is the concatenation of the tokens.          *)
(***************************************************************************)
EXTENDS Integers, Sequences, FiniteSets, TLC

VARIABLES
    heap,      \* the objects (dicts and lists), by address 1..Len(heap)
    pc,        \* the position of the program
    tree,      \* path layer: the tree (a reference) read and written
    setcall,   \* path layer: the set_value call made, and how it ended
    getcall,   \* path layer: the get_value call made, and what it returned
    hcall,     \* value transform: the handle_new_value call, and how it ended
    assets,    \* run: the assets of the source document (references)
    mappings,  \* run: the rules of the mapping table
    contracts_by_asset,  \* run: table name -> contract tree (a reference)
    frame,     \* run: the locals of run, build_contract and process_sla
    step,      \* run: what the last step did (for the claims)
    files,     \* run: the contract trees written out, by asset name
    catalog,   \* apply: the remote catalog and the calls made to it
    worker     \* apply: the locals of each process_file worker

pathvars == <<tree, setcall, getcall>>
runvars == <<assets, mappings, contracts_by_asset, frame, step, files>>
applyvars == <<catalog, worker>>
vars == <<heap, pc, tree, setcall, getcall, hcall,
          assets, mappings, contracts_by_asset, frame, step, files, catalog, worker>>

\* apply_data_contracts.py is not running
NoApply == catalog = <<>> /\ worker = <<>>

(***************************************************************************)
(* Values and objects                                                      *)
(***************************************************************************)
None == [t |-> "none", v |-> <<>>]
Str(toks) == [t |-> "str", v |-> toks]
S(name) == Str(<<name>>)
IntV(n) == [t |-> "int", v |-> n]
Ref(a) == [t |-> "ref", v |-> a]

EmptyDict == [t |-> "dict", v |-> <<>>]
EmptyList == [t |-> "list", v |-> <<>>]

IsNone(x) == x.t = "none"
IsStr(x) == x.t = "str"
IsRef(x) == x.t = "ref"
\* isinstance(x, dict), isinstance(x, list)
IsDict(h, x) == x.t = "ref" /\ h[x.v].t = "dict"
IsList(h, x) == x.t = "ref" /\ h[x.v].t = "list"

\* key in d, d[key], len(l), l[i] (0-based) for an object that is known to be
\* a dict or a list
HasKey(h, d, key) == key \in DOMAIN h[d.v].v
Item(h, d, key) == h[d.v].v[key]
ListLen(h, l) == Len(h[l.v].v)
Elem(h, l, i) == h[l.v].v[i + 1]

\* a new object: the heap with it, and the reference to it
Alloc(h, obj) == [h |-> Append(h, obj), r |-> Ref(Len(h) + 1)]

\* d[key] = val
DictSet(h, d, key, val) ==
    LET old == h[d.v].v
        new == [k \in (DOMAIN old) \cup {key} |-> IF k = key THEN val ELSE old[k]]
    IN  [h EXCEPT ![d.v] = [t |-> "dict", v |-> new]]

\* l.append(val)
ListAppend(h, l, val) == [h EXCEPT ![l.v] = [t |-> "list", v |-> Append(h[l.v].v, val)]]

\* l.extend(other): the elements of other as they are when the call starts
ListExtend(h, l, other) ==
    [h EXCEPT ![l.v] = [t |-> "list", v |-> h[l.v].v \o h[other.v].v]]

(***************************************************************************)
(* Strings                                                                 *)
(***************************************************************************)
Dot == "."
Marker == "[]"

RECURSIVE Join(_)
\* the text of a token sequence
Join(toks) == IF toks = <<>> THEN "" ELSE toks[1] \o Join(Tail(toks))

RECURSIVE split(_)
\* path.split(".")
split(toks) ==
    IF \A i \in 1..Len(toks) : toks[i] # Dot
    THEN <<toks>>
    ELSE LET i == CHOOSE j \in 1..Len(toks) :
                      toks[j] = Dot /\ \A k \in 1..(j - 1) : toks[k] # Dot
         IN  <<SubSeq(toks, 1, i - 1)>> \o split(SubSeq(toks, i + 1, Len(toks)))

\* p.endswith("[]")
endswith_marker(p) == Len(p) > 0 /\ p[Len(p)] = Marker

IsNotMarker(tok) == tok # Marker
\* p.replace("[]", ""), as a dict key
strip_marker(p) == Join(SelectSeq(p, IsNotMarker))

(***************************************************************************)
(* get_value                                                               *)
(***************************************************************************)
RECURSIVE _extract(_, _, _, _)
RECURSIVE _extract_items(_, _, _, _, _)

\* the loop of _extract leaving at the first element: the elements after it
\* are not visited
_extract_items_first(h, current, parts, key, i) ==
    IF i >= ListLen(h, current) THEN <<>>
    ELSE LET item == Elem(h, current, i)
         IN  IF IsDict(h, item) /\ HasKey(h, item, key)
             THEN _extract(h, Item(h, item, key), Tail(parts), IntV(i))
             ELSE <<>>

\* the loop of _extract over a list, from element i on
_extract_items(h, current, parts, key, i) ==
    IF i >= ListLen(h, current) THEN <<>>
    ELSE LET item == Elem(h, current, i)
             here == IF IsDict(h, item) /\ HasKey(h, item, key)
                     THEN _extract(h, Item(h, item, key), Tail(parts), IntV(i))
                     ELSE <<>>
         IN  here \o _extract_items(h, current, parts, key, i + 1)

_extract(h, current, parts, idx) ==
    IF parts = <<>> THEN << <<current, idx>> >>
    ELSE LET key == strip_marker(parts[1])
         IN  IF IsList(h, current)
             THEN _extract_items(h, current, parts, key, 0)
             ELSE IF IsDict(h, current) /\ HasKey(h, current, key)
                  THEN _extract(h, Item(h, current, key), Tail(parts), idx)
                  ELSE <<>>

get_value(h, node, path) == _extract(h, node, split(path), None)

(***************************************************************************)
(* set_value                                                               *)
(***************************************************************************)
\* what a call that mutates returns: the heap it leaves, and whether it raised
Done(h) == [h |-> h, err |-> FALSE]
Raise(h) == [h |-> h, err |-> TRUE]

RECURSIVE pad_more(_, _, _)
\* pad as a do-while: one empty mapping is appended before the length is tested
pad_more(h, l, pos) ==
    LET a == Alloc(h, EmptyDict)
        h1 == ListAppend(a.h, l, a.r)
    IN  IF ListLen(h1, l) <= pos THEN pad_more(h1, l, pos) ELSE h1

RECURSIVE pad(_, _, _)
\* while len(current[key]) <= pos: current[key].append({})
pad(h, l, pos) ==
    IF ListLen(h, l) <= pos
    THEN LET a == Alloc(h, EmptyDict) IN pad(ListAppend(a.h, l, a.r), l, pos)
    ELSE h

\* the last segment of set_value (lines 45-56) at the node current
set_last(h, current, last, value) ==
    LET is_list == endswith_marker(last)
        key == strip_marker(last)
    IN  IF ~IsDict(h, current) THEN Raise(h)
        ELSE IF is_list
        THEN LET a == Alloc(h, EmptyList)
                 h1 == IF HasKey(h, current, key) THEN h
                       ELSE DictSet(a.h, current, key, a.r)
                 l == Item(h1, current, key)
             IN  IF ~IsList(h1, l) THEN Raise(h1)
                 ELSE IF IsList(h1, value) THEN Done(ListExtend(h1, l, value))
                 ELSE Done(ListAppend(h1, l, value))
        ELSE Done(DictSet(h, current, key, value))

\* set_from without the descent into current[key]: every segment is written at
\* the root
set_from_flat(h, current, parts, value, idx) ==
    set_last(h, current, parts[Len(parts)], value)

RECURSIVE set_from(_, _, _, _, _)
\* set_value from the node current on, parts being the segments still to go
set_from(h, current, parts, value, idx) ==
    IF Len(parts) = 1 THEN set_last(h, current, parts[1], value)
    ELSE
    LET p == parts[1]
        is_list == endswith_marker(p)
        key == strip_marker(p)
    IN  IF ~IsDict(h, current) THEN Raise(h)
        ELSE IF is_list
        THEN LET a == Alloc(h, EmptyList)
                 h1 == IF HasKey(h, current, key) THEN h
                       ELSE DictSet(a.h, current, key, a.r)
                 l == Item(h1, current, key)
             IN  IF ~IsList(h1, l) THEN Raise(h1)
                 ELSE LET pos == IF IsNone(idx) THEN ListLen(h1, l) ELSE idx.v
                          h2 == pad(h1, l, pos)
                          n == ListLen(h2, l)
                      IN  IF pos >= 0
                          THEN set_from(h2, Elem(h2, l, pos), Tail(parts), value, idx)
                          ELSE IF -pos <= n
                          THEN set_from(h2, Elem(h2, l, n + pos), Tail(parts), value, idx)
                          ELSE Raise(h2)
        ELSE LET a == Alloc(h, EmptyDict)
                 h1 == IF HasKey(h, current, key) /\ IsDict(h, Item(h, current, key))
                       THEN h
                       ELSE DictSet(a.h, current, key, a.r)
             IN  set_from(h1, Item(h1, current, key), Tail(parts), value, idx)

\* set_value that drops the explicit index: every list segment appends
set_value_noidx(h, target, path, value, idx) ==
    set_from(h, target, split(path), value, None)

set_value(h, target, path, value, idx) == set_from(h, target, split(path), value, idx)

(***************************************************************************)
(* handle_new_value                                                        *)
(***************************************************************************)
\* what a call that returns a value gives: the value, and whether it raised
Return(x) == [ret |-> x, err |-> FALSE]
RaiseValue == [ret |-> None, err |-> TRUE]

\* val in new_val, for a dict new_val and a hashable val: the keys of a table
\* read from JSON are strings
InTable(h, val, new_val) == IsStr(val) /\ HasKey(h, new_val, Join(val.v))

handle_new_value(h, val, new_val, default_val) ==
    IF IsDict(h, new_val)
    THEN IF IsRef(val) THEN RaiseValue      \* a dict or a list is unhashable
         ELSE IF InTable(h, val, new_val) THEN Return(Item(h, new_val, Join(val.v)))
         ELSE IF ~IsNone(default_val) THEN Return(default_val)
         ELSE Return(None)
    ELSE IF ~IsNone(new_val) THEN Return(new_val)
    ELSE Return(val)

(***************************************************************************)
(* build_contract                                                          *)
(*                                                                         *)
(* A rule m of the mapping table is a record of what m["ODCS_Path"],       *)
(* m["Atlan_Path"], m.get("New_Value"), m.get("Default_Value"),            *)
(* m.get("Level") and m.get("Index") give, None standing for an absent     *)
(* key.  The state of a call is the heap, whether an exception was raised  *)
(* and the set_value calls made so far.  A loop over a list reads the list *)
(* as it is when each element is reached, as a Python for loop does.       *)
(***************************************************************************)
\* d.get(key, default)
Get(h, d, key, default) == IF HasKey(h, d, key) THEN Item(h, d, key) ELSE default

\* path == "slaProperties[]": the test for the whole path, not for its start
is_sla_path_exact(path) == path = <<"slaProperties", Marker>>

\* path.startswith("slaProperties[].")
is_sla_path(path) ==
    Len(path) >= 3 /\ SubSeq(path, 1, 3) = <<"slaProperties", Marker, Dot>>

\* "quality" in src_path: the names of the model that hold the text "quality"
QualityNames == {"quality"}
mentions_quality(path) == \E i \in 1..Len(path) : path[i] \in QualityNames

\* a for loop over x that is no list: nothing to do for an empty mapping or an
\* empty string, an exception otherwise (None and numbers cannot be iterated,
\* the keys of a mapping and the characters of a string are strings, which
\* the loop bodies of the column branch reject)
IsEmptyIterable(h, x) ==
    \/ IsStr(x) /\ x.v = <<>>
    \/ IsDict(h, x) /\ DOMAIN h[x.v].v = {}

Failed(st) == [st EXCEPT !.err = TRUE]

\* set_value(contract, dst_path, final_val, idx), noted in the writes of the call
write(st, contract, dst_path, final_val, idx, from) ==
    LET r == set_value(st.h, contract, dst_path, final_val, idx)
    IN  [h |-> r.h, err |-> r.err,
         writes |-> Append(st.writes, [value |-> final_val, idx |-> idx, from |-> from])]

\* final_val = handle_new_value(val, new_val, default_val), then set_value
transform_and_write(st, contract, m, val, idx, from) ==
    LET f == handle_new_value(st.h, val, m.New_Value, m.Default_Value)
    IN  IF f.err THEN Failed(st)
        ELSE write(st, contract, m.Atlan_Path, f.ret, idx, from)

\* dict(q): a new dict with the entries of q
dict_copy(h, q) ==
    IF IsDict(h, q) THEN LET a == Alloc(h, h[q.v]) IN [h |-> a.h, r |-> a.r, err |-> FALSE]
    ELSE IF IsEmptyIterable(h, q) \/ (IsList(h, q) /\ ListLen(h, q) = 0)
    THEN LET a == Alloc(h, EmptyDict) IN [h |-> a.h, r |-> a.r, err |-> FALSE]
    ELSE [h |-> h, r |-> None, err |-> TRUE]

RECURSIVE column_quality_entries_untagged(_, _, _, _, _, _)
\* the loop over the entries without line 82: the copy gets no column field
column_quality_entries_untagged(st, contract, m, quality, col_name, i) ==
    IF st.err \/ i >= ListLen(st.h, quality) THEN st
    ELSE LET q == Elem(st.h, quality, i)
             c == dict_copy(st.h, q)
             copied == [st EXCEPT !.h = c.h]
         IN  IF c.err THEN Failed(st)
             ELSE column_quality_entries_untagged(
                      transform_and_write(copied, contract, m, c.r, None, <<q, col_name>>),
                      contract, m, quality, col_name, i + 1)

RECURSIVE column_quality_entries(_, _, _, _, _, _)
\* lines 79-84: for q in col["quality"], from element i on
column_quality_entries(st, contract, m, quality, col_name, i) ==
    IF st.err \/ i >= ListLen(st.h, quality) THEN st
    ELSE LET q == Elem(st.h, quality, i)
             c == dict_copy(st.h, q)
             tagged == [st EXCEPT !.h = DictSet(c.h, c.r, "column", col_name)]
         IN  IF c.err THEN Failed(st)
             ELSE column_quality_entries(
                      transform_and_write(tagged, contract, m, c.r, None, <<q, col_name>>),
                      contract, m, quality, col_name, i + 1)

RECURSIVE column_quality_columns(_, _, _, _, _)
\* lines 76-84: for col in table.get("properties", []), from element i on
column_quality_columns(st, contract, m, properties, i) ==
    IF st.err \/ i >= ListLen(st.h, properties) THEN st
    ELSE LET col == Elem(st.h, properties, i)
             quality == Item(st.h, col, "quality")
             after ==
                 IF ~IsDict(st.h, col) THEN Failed(st)
                 ELSE IF ~HasKey(st.h, col, "quality") THEN st
                 ELSE IF IsList(st.h, quality)
                 THEN column_quality_entries(st, contract, m, quality,
                                             Get(st.h, col, "name", None), 0)
                 ELSE IF IsEmptyIterable(st.h, quality) THEN st
                 ELSE Failed(st)
         IN  column_quality_columns(after, contract, m, properties, i + 1)

RECURSIVE column_quality_tables(_, _, _, _, _)
\* lines 75-84: for table in asset.get("schema", []), from element i on
column_quality_tables(st, contract, m, schema, i) ==
    IF st.err \/ i >= ListLen(st.h, schema) THEN st
    ELSE LET table == Elem(st.h, schema, i)
             properties == Item(st.h, table, "properties")
             after ==
                 IF ~IsDict(st.h, table) THEN Failed(st)
                 ELSE IF ~HasKey(st.h, table, "properties") THEN st
                 ELSE IF IsList(st.h, properties)
                 THEN column_quality_columns(st, contract, m, properties, 0)
                 ELSE IF IsEmptyIterable(st.h, properties) THEN st
                 ELSE Failed(st)
         IN  column_quality_tables(after, contract, m, schema, i + 1)

RECURSIVE table_quality_entries(_, _, _, _, _)
\* lines 90-92: for q in table.get("quality", []), from element i on
table_quality_entries(st, contract, m, quality, i) ==
    IF st.err \/ i >= ListLen(st.h, quality) THEN st
    ELSE LET q == Elem(st.h, quality, i)
         IN  table_quality_entries(
                 transform_and_write(st, contract, m, q, None, <<q, None>>),
                 contract, m, quality, i + 1)

RECURSIVE table_quality_tables(_, _, _, _, _)
\* lines 89-92: for table in asset.get("schema", []), from element i on
table_quality_tables(st, contract, m, schema, i) ==
    IF st.err \/ i >= ListLen(st.h, schema) THEN st
    ELSE LET table == Elem(st.h, schema, i)
             quality == Item(st.h, table, "quality")
             after ==
                 IF ~IsDict(st.h, table) THEN Failed(st)
                 ELSE IF ~HasKey(st.h, table, "quality") THEN st
                 ELSE IF IsList(st.h, quality)
                 THEN table_quality_entries(st, contract, m, quality, 0)
                 ELSE IF IsEmptyIterable(st.h, quality) THEN st
                 ELSE Failed(st)
         IN  table_quality_tables(after, contract, m, schema, i + 1)

\* the schema loop of a quality branch: asset.get("schema", [])
quality_branch(st, asset, contract, m, column) ==
    LET schema == Item(st.h, asset, "schema")
    IN  IF ~HasKey(st.h, asset, "schema") THEN st
        ELSE IF IsList(st.h, schema)
        THEN IF column THEN column_quality_tables(st, contract, m, schema, 0)
             ELSE table_quality_tables(st, contract, m, schema, 0)
        ELSE IF IsEmptyIterable(st.h, schema) THEN st
        ELSE Failed(st)

RECURSIVE fan_out(_, _, _, _, _)
\* lines 107-109: for val, odcs_idx in results, from match i on
fan_out(st, contract, m, results, i) ==
    IF st.err \/ i > Len(results) THEN st
    ELSE fan_out(transform_and_write(st, contract, m, results[i][1], results[i][2],
                                     results[i]),
                 contract, m, results, i + 1)

\* lines 99-105: the one match results[json_index], written at json_index
select_one(st, contract, m, results, json_index) ==
    LET n == Len(results)
    IN  IF json_index >= n THEN st
        ELSE IF json_index >= 0
        THEN transform_and_write(st, contract, m, results[json_index + 1][1],
                                 IntV(json_index), results[json_index + 1])
        ELSE IF -json_index <= n
        THEN transform_and_write(st, contract, m, results[n + json_index + 1][1],
                                 IntV(json_index), results[n + json_index + 1])
        ELSE Failed(st)      \* results[json_index]: IndexError

\* lines 95-109: a generic rule
generic_rule(st, asset, contract, m) ==
    LET results == get_value(st.h, asset, m.ODCS_Path)
    IN  IF results = <<>> THEN st
        ELSE IF ~IsNone(m.Index) THEN select_one(st, contract, m, results, m.Index.v)
        ELSE fan_out(st, contract, m, results, 1)

\* lines 61-109: the body of the loop of build_contract for the rule m
apply_mapping(h, asset, contract, m) ==
    LET st == [h |-> h, err |-> FALSE, writes |-> <<>>]
    IN  IF is_sla_path(m.ODCS_Path) THEN st
        ELSE IF m.Level = S("column") /\ mentions_quality(m.ODCS_Path)
        THEN quality_branch(st, asset, contract, m, TRUE)
        ELSE IF m.Level = S("table") /\ mentions_quality(m.ODCS_Path)
        THEN quality_branch(st, asset, contract, m, FALSE)
        ELSE generic_rule(st, asset, contract, m)

(***************************************************************************)
(* process_sla                                                             *)
(***************************************************************************)
RECURSIVE replace_all(_, _)
\* s.replace(pat, ""): every occurrence of the tokens pat, left to right.  No
\* name of the model ends with the name pat starts with, so an occurrence in
\* the text is an occurrence in the tokens.
replace_all(toks, pat) ==
    IF Len(toks) < Len(pat) THEN toks
    ELSE IF SubSeq(toks, 1, Len(pat)) = pat
    THEN replace_all(SubSeq(toks, Len(pat) + 1, Len(toks)), pat)
    ELSE <<toks[1]>> \o replace_all(Tail(toks), pat)

\* the truth value of x in a condition
Truthy(h, x) ==
    \/ IsStr(x) /\ x.v # <<>>
    \/ x.t = "int" /\ x.v # 0
    \/ IsRef(x) /\ DOMAIN h[x.v].v # {}

\* s.split(".")[0]
first_part(x) == Str(split(x.v)[1])

IsSlaMapping(m) == is_sla_path(m.ODCS_Path)
\* line 132
sla_mappings_of(maps) == SelectSeq(maps, IsSlaMapping)

RECURSIVE sla_put(_, _, _, _)
\* lines 161-167: val at the keys parts below the dict cur
sla_put(h, cur, parts, val) ==
    IF Len(parts) = 1 THEN DictSet(h, cur, Join(parts[1]), val)
    ELSE LET p == Join(parts[1])
             a == Alloc(h, EmptyDict)
             h1 == IF HasKey(h, cur, p) /\ IsDict(h, Item(h, cur, p)) THEN h
                   ELSE DictSet(a.h, cur, p, a.r)
         IN  sla_put(h1, Item(h1, cur, p), Tail(parts), val)

RECURSIVE sla_object(_, _, _, _, _)
\* lines 155-167: the loop over sla_mappings that fills sla_obj, from rule j on
sla_object(h, sla_obj, rule, smaps, j) ==
    IF j > Len(smaps) THEN h
    ELSE LET m == smaps[j]
             src_key == Join(replace_all(m.ODCS_Path, <<"slaProperties", Marker, Dot>>))
             dst_path == replace_all(m.Atlan_Path, <<"sla", Dot>>)
             val == IF ~IsNone(m.New_Value) THEN m.New_Value ELSE Item(h, rule, src_key)
             h1 == IF HasKey(h, rule, src_key)
                   THEN sla_put(h, sla_obj, split(dst_path), val)
                   ELSE h
         IN  sla_object(h1, sla_obj, rule, smaps, j + 1)

\* lines 139-147: the asset an SLA entry names: a name, nothing (the entry is
\* skipped) or an exception
sla_asset_name(h, rule, default_element) ==
    LET element == Get(h, rule, "element", None)
    IN  IF ~IsDict(h, rule) THEN [kind |-> "raise", name |-> None]
        ELSE IF Truthy(h, element)
        THEN IF IsStr(element) THEN [kind |-> "name", name |-> first_part(element)]
             ELSE [kind |-> "raise", name |-> None]
        ELSE IF ~Truthy(h, default_element) THEN [kind |-> "skip", name |-> None]
        ELSE IF IsStr(default_element)
        THEN [kind |-> "name", name |-> first_part(default_element)]
        ELSE [kind |-> "raise", name |-> None]

\* the body of the loop with the object assigned to the key sla instead of
\* appended to the list there
sla_rule_block(h, rule, default_element, smaps, cba) ==
    LET target == sla_asset_name(h, rule, default_element)
        contract == cba[target.name]
        o == Alloc(h, EmptyDict)
        h2 == sla_object(o.h, o.r, rule, smaps, 1)
    IN  IF target.kind = "raise" THEN [h |-> h, err |-> TRUE, wrote |-> FALSE]
        ELSE IF target.kind = "skip" \/ target.name \notin DOMAIN cba
        THEN [h |-> h, err |-> FALSE, wrote |-> FALSE]
        ELSE [h |-> DictSet(h2, contract, "sla", o.r), err |-> FALSE, wrote |-> TRUE]

\* the body of the loop without the test of lines 146-147: an unknown asset
\* name is looked up and raises KeyError
sla_rule_strict(h, rule, default_element, smaps, cba) ==
    LET target == sla_asset_name(h, rule, default_element)
        contract == cba[target.name]
        a == Alloc(h, EmptyList)
        h1 == IF HasKey(h, contract, "sla") /\ IsList(h, Item(h, contract, "sla"))
              THEN h
              ELSE DictSet(a.h, contract, "sla", a.r)
        o == Alloc(h1, EmptyDict)
        h2 == sla_object(o.h, o.r, rule, smaps, 1)
    IN  IF target.kind = "raise" THEN [h |-> h, err |-> TRUE, wrote |-> FALSE]
        ELSE IF target.kind = "skip" THEN [h |-> h, err |-> FALSE, wrote |-> FALSE]
        ELSE IF target.name \notin DOMAIN cba THEN [h |-> h, err |-> TRUE, wrote |-> FALSE]
        ELSE [h |-> ListAppend(h2, Item(h2, contract, "sla"), o.r),
              err |-> FALSE, wrote |-> TRUE]

\* lines 137-169: the body of the loop of process_sla for one entry
sla_rule(h, rule, default_element, smaps, cba) ==
    LET target == sla_asset_name(h, rule, default_element)
        contract == cba[target.name]
        a == Alloc(h, EmptyList)
        h1 == IF HasKey(h, contract, "sla") /\ IsList(h, Item(h, contract, "sla"))
              THEN h
              ELSE DictSet(a.h, contract, "sla", a.r)
        o == Alloc(h1, EmptyDict)
        h2 == sla_object(o.h, o.r, rule, smaps, 1)
    IN  IF target.kind = "raise" THEN [h |-> h, err |-> TRUE, wrote |-> FALSE]
        ELSE IF target.kind = "skip" \/ target.name \notin DOMAIN cba
        THEN [h |-> h, err |-> FALSE, wrote |-> FALSE]
        ELSE [h |-> ListAppend(h2, Item(h2, contract, "sla"), o.r),
              err |-> FALSE, wrote |-> TRUE]

(***************************************************************************)
(* Trees as plain values: what a document holds when it is parsed, and     *)
(* what a reference stands for when it is read through                     *)
(***************************************************************************)
PD(f) == [t |-> "dict", v |-> f]
PL(q) == [t |-> "list", v |-> q]
Cut == [t |-> "cut", v |-> <<>>]

\* how deep a reference is read through
DerefDepth == 6

\* y, once x is built: the parser builds a child before it reads the next one
After(x, y) == IF x = x THEN y ELSE y

RECURSIVE Load(_, _)
RECURSIVE LoadKeys(_, _, _, _)
RECURSIVE LoadElems(_, _, _, _)

\* the parsed tree lit as fresh objects of the heap
Load(h, lit) ==
    IF lit.t = "dict"
    THEN LET a == Alloc(h, EmptyDict)
         IN  [h |-> LoadKeys(a.h, a.r, lit.v, DOMAIN lit.v), r |-> a.r]
    ELSE IF lit.t = "list"
    THEN LET a == Alloc(h, EmptyList)
         IN  [h |-> LoadElems(a.h, a.r, lit.v, 1), r |-> a.r]
    ELSE [h |-> h, r |-> lit]

LoadKeys(h, d, f, keys) ==
    IF keys = {} THEN h
    ELSE LET k == CHOOSE x \in keys : TRUE
             c == Load(h, f[k])
         IN  After(c, LoadKeys(DictSet(c.h, d, k, c.r), d, f, keys \ {k}))

LoadElems(h, l, q, i) ==
    IF i > Len(q) THEN h
    ELSE LET c == Load(h, q[i])
         IN  After(c, LoadElems(ListAppend(c.h, l, c.r), l, q, i + 1))

RECURSIVE DerefTo(_, _, _)
DerefTo(h, x, fuel) ==
    IF ~IsRef(x) THEN x
    ELSE IF fuel = 0 THEN Cut
    ELSE LET o == h[x.v]
         IN  [t |-> o.t, v |-> [k \in DOMAIN o.v |-> DerefTo(h, o.v[k], fuel - 1)]]

\* the tree the value x stands for
Deref(h, x) == DerefTo(h, x, DerefDepth)

\* x == y in Python: the two values stand for equal trees
ValEq(h, x, y) == Deref(h, x) = Deref(h, y)

(***************************************************************************)
(* The path layer on its own: one set_value call on a tree, and get_value  *)
(* calls on the tree before and after it                                   *)
(***************************************************************************)
\* the largest explicit index written at
MaxIdx == 2

PathTrees ==
    { PD(<<>>),
      PD([k \in {"a"} |-> PL(<< PD([j \in {"b"} |-> S("old")]) >>)]),
      PD([k \in {"a"} |-> PL(<< PD([j \in {"b"} |-> S("x")]),
                               PD([j \in {"b"} |-> PD([i \in {"c"} |-> S("y")])]),
                               S("s"),
                               PD([j \in {"d"} |-> S("z")]) >>)]),
      PD([k \in {"a"} |-> PD([j \in {"b"} |-> S("x")])]),
      PD([k \in {"a"} |-> S("s")]) }

Paths ==
    { <<"a">>, <<"a", ".", "b">>, <<"a", ".", "b", ".", "c">>,
      <<"a", "[]", ".", "b">>, <<"x", ".", "a", "[]", ".", "b", ".", "c">>,
      <<"a", "[]">>, <<"a", ".", "b", "[]">>, <<"a", "[]", ".", "b", "[]">> }

PathValues ==
    { S("v"), None, PL(<<>>), PL(<<S("w")>>), PD([k \in {"k"} |-> S("u")]) }

Indexes == {None} \cup {IntV(i) : i \in 0..MaxIdx}

NoCall == [op |-> "none"]

\* the variables of run when run is not what is being executed
NoRun ==
    /\ assets = <<>>
    /\ mappings = <<>>
    /\ contracts_by_asset = <<>>
    /\ frame = <<>>
    /\ step = NoCall
    /\ files = <<>>

InitPath ==
    /\ \E t \in PathTrees :
           LET c == Load(<<>>, t) IN heap = c.h /\ tree = c.r
    /\ pc = "start"
    /\ setcall = NoCall
    /\ getcall = NoCall
    /\ hcall = NoCall
    /\ NoRun
    /\ NoApply

\* the caller builds the value and calls set_value(tree, path, value, idx)
SetValue ==
    /\ pc = "start"
    /\ \E path \in Paths, lit \in PathValues, idx \in Indexes :
           LET c == Load(heap, lit)
               r == set_value(c.h, tree, path, c.r, idx)
           IN  /\ heap' = r.h
               /\ setcall' = [op |-> "set_value", path |-> path, value |-> c.r,
                              idx |-> idx, err |-> r.err, pre |-> Deref(heap, tree)]
    /\ pc' = "written"
    /\ getcall' = NoCall
    /\ UNCHANGED <<tree, hcall>>
    /\ UNCHANGED <<runvars, applyvars>>

\* get_value(tree, path)
GetValue ==
    /\ pc \in {"start", "written"}
    /\ \E path \in Paths :
           getcall' = [op |-> "get_value", path |-> path,
                       ret |-> get_value(heap, tree, path)]
    /\ pc' = "read"
    /\ UNCHANGED <<heap, tree, setcall, hcall>>
    /\ UNCHANGED <<runvars, applyvars>>

\* the caller repeats the call: set_value(tree, path, value, idx) once more,
\* with the same path, the same value object and the same index
SetValueAgain ==
    /\ pc = "written"
    /\ LET r == set_value(heap, tree, setcall.path, setcall.value, setcall.idx)
       IN  /\ heap' = r.h
           /\ setcall' = [op |-> "set_value_again", path |-> setcall.path,
                          value |-> setcall.value, idx |-> setcall.idx,
                          err |-> r.err, pre |-> Deref(heap, tree),
                          first |-> [err |-> setcall.err, pre |-> setcall.pre]]
    /\ pc' = "rewritten"
    /\ UNCHANGED <<tree, getcall, hcall>>
    /\ UNCHANGED <<runvars, applyvars>>

NextPath == SetValue \/ GetValue \/ SetValueAgain

SpecPath == InitPath /\ [][NextPath]_vars

(***************************************************************************)
(* Claims about the path layer                                             *)
(***************************************************************************)
\* the segments of a path that carry the list marker
MarkerSegs(path) == {k \in 1..Len(split(path)) : endswith_marker(split(path)[k])}
MarkerCount(path) == Cardinality({i \in 1..Len(path) : path[i] = Marker})

\* a set_value call was made and then get_value was called with the same path
RoundTrip ==
    /\ pc = "read"
    /\ setcall.op = "set_value"
    /\ getcall.path = setcall.path

\* C1: on an empty tree, set_value(tree, path, v) with a path of plain
\* segments and then get_value(tree, path) returns exactly [(v, None)].
C1_PlainRoundTrip ==
    (/\ RoundTrip
     /\ setcall.pre = PD(<<>>)
     /\ IsNone(setcall.idx)
     /\ MarkerCount(setcall.path) = 0)
    => (/\ ~setcall.err
        /\ Len(getcall.ret) = 1
        /\ ValEq(heap, getcall.ret[1][1], setcall.value)
        /\ getcall.ret[1][2] = None)

\* C1 happens: a structured value written at a path of several segments
C1_Witness ==
    /\ RoundTrip
    /\ setcall.pre = PD(<<>>)
    /\ IsNone(setcall.idx)
    /\ MarkerCount(setcall.path) = 0
    /\ Len(split(setcall.path)) = 3
    /\ IsRef(setcall.value)
    /\ Len(getcall.ret) = 1

Absent == [t |-> "absent", v |-> <<>>]

RECURSIVE WalkPlain(_, _)
\* the node of the plain tree reached along the keys of segs, if there is one
WalkPlain(node, segs) ==
    IF segs = <<>> THEN node
    ELSE LET key == strip_marker(segs[1])
         IN  IF node.t = "dict" /\ key \in DOMAIN node.v
             THEN WalkPlain(node.v[key], Tail(segs))
             ELSE Absent

\* the sequence a path with one list segment addresses in the plain tree t
TargetSeq(t, path) ==
    LET segs == split(path)
        k == CHOOSE x \in MarkerSegs(path) : TRUE
    IN  WalkPlain(t, SubSeq(segs, 1, k))

\* the write has a place to go: the list key is absent, or holds a sequence
\* whose position i is free or a mapping
Writable(t, path, i) ==
    LET q == TargetSeq(t, path)
    IN  \/ q.t = "absent"
        \/ q.t = "list" /\ (i >= Len(q.v) \/ q.v[i + 1].t = "dict")

\* C2 as stated, for a write on an empty tree and read in the most generous
\* way: with one list marker in the path and an explicit index i >= 0, after
\* set_value the written value is found at position i (as the i-th match of
\* get_value, as the match that carries index i, or as the i-th element of
\* the sequence get_value returns), and the target sequence has every
\* position < i.
C2_Original ==
    (/\ RoundTrip
     /\ setcall.pre = PD(<<>>)
     /\ MarkerCount(setcall.path) = 1
     /\ ~IsNone(setcall.idx))
    => LET i == setcall.idx.v
           ret == getcall.ret
           q == TargetSeq(Deref(heap, tree), setcall.path)
       IN  /\ \/ Len(ret) > i /\ ValEq(heap, ret[i + 1][1], setcall.value)
              \/ \E m \in 1..Len(ret) :
                     ValEq(heap, ret[m][1], setcall.value) /\ ret[m][2] = setcall.idx
              \/ \E m \in 1..Len(ret) :
                     /\ IsList(heap, ret[m][1])
                     /\ ListLen(heap, ret[m][1]) > i
                     /\ ValEq(heap, Elem(heap, ret[m][1], i), setcall.value)
           /\ q.t = "list" /\ Len(q.v) >= i

\* C2, amended: with the one list marker on a segment before the last, an
\* explicit index i >= 0 and a place to write at, get_value after set_value
\* returns the match (v, i); the target sequence then has more than i
\* elements, and every position < i that was not there before holds an empty
\* mapping.
C2_IndexedWrite ==
    (/\ RoundTrip
     /\ MarkerCount(setcall.path) = 1
     /\ MarkerSegs(setcall.path) # {}
     /\ Len(split(setcall.path)) \notin MarkerSegs(setcall.path)
     /\ ~IsNone(setcall.idx)
     /\ Writable(setcall.pre, setcall.path, setcall.idx.v))
    => LET i == setcall.idx.v
           old == TargetSeq(setcall.pre, setcall.path)
           q == TargetSeq(Deref(heap, tree), setcall.path)
       IN  /\ ~setcall.err
           /\ \E m \in 1..Len(getcall.ret) :
                  /\ ValEq(heap, getcall.ret[m][1], setcall.value)
                  /\ getcall.ret[m][2] = setcall.idx
           /\ q.t = "list" /\ Len(q.v) > i
           /\ \A j \in 0..(i - 1) :
                  (old.t = "absent" \/ j >= Len(old.v)) => q.v[j + 1] = PD(<<>>)

\* C2 happens: a write at index 2 pads two positions of a sequence that held
\* one element, and the match comes back alone
C2_Witness ==
    /\ RoundTrip
    /\ MarkerCount(setcall.path) = 1
    /\ Len(split(setcall.path)) \notin MarkerSegs(setcall.path)
    /\ setcall.idx = IntV(2)
    /\ setcall.pre # PD(<<>>)
    /\ Writable(setcall.pre, setcall.path, 2)
    /\ TargetSeq(setcall.pre, setcall.path).t = "list"
    /\ Len(TargetSeq(Deref(heap, tree), setcall.path).v) = 3

RECURSIVE MeetsDeadNode(_, _, _)
\* on some branch of the traversal a segment meets a node that is neither a
\* mapping with the key nor a sequence with a mapping element that has it
MeetsDeadNode(h, current, parts) ==
    IF parts = <<>> THEN FALSE
    ELSE LET key == strip_marker(parts[1])
             live == {i \in 0..(ListLen(h, current) - 1) :
                         IsDict(h, Elem(h, current, i))
                         /\ HasKey(h, Elem(h, current, i), key)}
         IN  IF IsList(h, current)
             THEN \/ live = {}
                  \/ \E i \in live :
                         MeetsDeadNode(h, Item(h, Elem(h, current, i), key), Tail(parts))
             ELSE IF IsDict(h, current) /\ HasKey(h, current, key)
             THEN MeetsDeadNode(h, Item(h, current, key), Tail(parts))
             ELSE TRUE

RECURSIVE EveryBranchDead(_, _, _)
\* every branch of the traversal meets such a node
EveryBranchDead(h, current, parts) ==
    IF parts = <<>> THEN FALSE
    ELSE LET key == strip_marker(parts[1])
             live == {i \in 0..(ListLen(h, current) - 1) :
                         IsDict(h, Elem(h, current, i))
                         /\ HasKey(h, Elem(h, current, i), key)}
         IN  IF IsList(h, current)
             THEN \A i \in live :
                      EveryBranchDead(h, Item(h, Elem(h, current, i), key), Tail(parts))
             ELSE IF IsDict(h, current) /\ HasKey(h, current, key)
             THEN EveryBranchDead(h, Item(h, current, key), Tail(parts))
             ELSE TRUE

\* C3 as stated: the list get_value returns is empty whenever some segment
\* meets a node that is neither a mapping with the key nor a sequence with a
\* mapping element that has it.
C3_Original ==
    (pc = "read" /\ MeetsDeadNode(heap, tree, split(getcall.path)))
    => getcall.ret = <<>>

\* C3, amended: get_value returns a list of (value, index) pairs, and the
\* list is empty exactly when every branch of the traversal meets such a
\* node; a sequence whose elements differ yields the matches of the branches
\* that go through.
C3_EmptyWhenBlocked ==
    pc = "read"
    => /\ \A m \in 1..Len(getcall.ret) : Len(getcall.ret[m]) = 2
       /\ (getcall.ret = <<>>) <=> EveryBranchDead(heap, tree, split(getcall.path))

\* C3 happens: one element of a sequence dead-ends and another one matches
C3_Witness ==
    /\ pc = "read"
    /\ MeetsDeadNode(heap, tree, split(getcall.path))
    /\ Len(getcall.ret) = 1
    /\ getcall.ret[1][2] = IntV(1)

(***************************************************************************)
(* The value transform on its own: one handle_new_value call               *)
(***************************************************************************)
HnvValues ==
    { S("a"), S("b"), None, IntV(1),
      PD([k \in {"a"} |-> S("q")]), PL(<<S("a")>>) }

HnvNewValues ==
    { None, S("N"), PL(<<S("n")>>), PD(<<>>),
      PD([k \in {"a"} |-> S("X")]),
      PD([k \in {"a", "b"} |-> IF k = "a" THEN S("X") ELSE PL(<<S("y")>>)]) }

HnvDefaults == { None, S("D"), PD([k \in {"d"} |-> S("e")]) }

InitHnv ==
    /\ \E v \in HnvValues, n \in HnvNewValues, d \in HnvDefaults :
           LET cv == Load(<<>>, v)
               cn == Load(cv.h, n)
               cd == Load(cn.h, d)
           IN  /\ heap = cd.h
               /\ hcall = [op |-> "args", val |-> cv.r, new_val |-> cn.r,
                           default_val |-> cd.r]
    /\ pc = "hnv"
    /\ tree = None
    /\ setcall = NoCall
    /\ getcall = NoCall
    /\ NoRun
    /\ NoApply

\* handle_new_value(val, new_val, default_val)
HandleNewValue ==
    /\ pc = "hnv"
    /\ LET r == handle_new_value(heap, hcall.val, hcall.new_val, hcall.default_val)
       IN  hcall' = [op |-> "handle_new_value", val |-> hcall.val,
                     new_val |-> hcall.new_val, default_val |-> hcall.default_val,
                     ret |-> r.ret, err |-> r.err]
    /\ pc' = "hnv_done"
    /\ UNCHANGED <<heap, tree, setcall, getcall>>
    /\ UNCHANGED <<runvars, applyvars>>

NextHnv == HandleNewValue

SpecHnv == InitHnv /\ [][NextHnv]_vars

(***************************************************************************)
(* run: the orchestrator                                                   *)
(***************************************************************************)
\* a parsed mapping from its (key, value) pairs
Rec(pairs) ==
    PD([k \in {pairs[i][1] : i \in 1..Len(pairs)} |->
            pairs[CHOOSE i \in 1..Len(pairs) : pairs[i][1] = k][2]])

Entry(name) == Rec(<< <<"rule", S(name)>> >>)

TableOrders ==
    Rec(<< <<"name", S("orders")>>,
           <<"properties",
             PL(<< Rec(<< <<"name", S("id")>>,
                          <<"quality", PL(<<Entry("notnull")>>)>> >>),
                   Rec(<< <<"name", S("amt")>>,
                          <<"description", S("amount")>>,
                          <<"quality", PL(<<Entry("positive")>>)>> >>) >>)>>,
           <<"quality", PL(<<Entry("rowcount")>>)>> >>)

TableUsers ==
    Rec(<< <<"name", S("users")>>,
           <<"properties",
             PL(<< Rec(<< <<"name", S("uid")>> >>),
                   Rec(<< <<"name", S("email")>>,
                          <<"description", S("mail")>>,
                          <<"quality", PL(<<Entry("unique"), Entry("format")>>)>> >>) >>)>> >>)

TableEvents == Rec(<< <<"name", S("events")>> >>)

Sla(element, property, value) ==
    Rec(<< <<"element", element>>, <<"property", S(property)>>, <<"value", S(value)>> >>)

\* one asset with two tables; its SLA entries name a table, an unknown table
\* and (through slaDefaultElement) the other table
DocOne ==
    Rec(<< <<"dataProduct", S("product1")>>,
           <<"slaDefaultElement", Str(<<"users", Dot, "id">>)>>,
           <<"schema", PL(<<TableOrders, TableUsers>>)>>,
           <<"slaProperties",
             PL(<< Sla(S("orders"), "freshness", "24h"),
                   Sla(S("unknown_table"), "latency", "1h"),
                   Rec(<< <<"property", S("retention")>>, <<"value", S("30d")>> >>) >>)>> >>)

\* a sequence of two assets; the SLA entries of the second name a table of the
\* first, twice with the same property, then an unknown table by element and
\* one through slaDefaultElement
DocList ==
    PL(<< Rec(<< <<"dataProduct", S("product1")>>,
                 <<"schema", PL(<<TableOrders>>)>>,
                 <<"slaProperties", PL(<< Sla(S("events"), "latency", "1h") >>)>> >>),
          Rec(<< <<"schema", PL(<<TableEvents>>)>>,
                 <<"slaDefaultElement", Str(<<"ghost", Dot, "id">>)>>,
                 <<"slaProperties",
                   PL(<< Sla(Str(<<"orders", Dot, "amt">>), "freshness", "24h"),
                         Sla(S("orders"), "freshness", "12h"),
                         Sla(S("nowhere"), "freshness", "1h"),
                         Rec(<< <<"property", S("retention")>>,
                                <<"value", S("30d")>> >>) >>)>> >>) >>)

\* one asset with two tables and two structured document-level fields, a
\* sequence and a mapping
DocTags ==
    Rec(<< <<"dataProduct", S("product1")>>,
           <<"tags", PL(<<S("gold")>>)>>,
           <<"owner", Rec(<< <<"team", S("data")>> >>)>>,
           <<"schema", PL(<<TableOrders, TableEvents>>)>> >>)

\* a second table named orders, and two tables without a name
TableOrdersTwin ==
    Rec(<< <<"name", S("orders")>>,
           <<"properties", PL(<< Rec(<< <<"name", S("oid")>> >>) >>)>> >>)
TableAnon(column) ==
    Rec(<< <<"properties", PL(<< Rec(<< <<"name", S(column)>> >>) >>)>> >>)

\* three assets: the tables orders and an unnamed one, another table orders,
\* another unnamed table
DocTwins ==
    PL(<< Rec(<< <<"dataProduct", S("product1")>>,
                 <<"schema", PL(<<TableOrders, TableAnon("k1")>>)>> >>),
          Rec(<< <<"dataProduct", S("product2")>>,
                 <<"schema", PL(<<TableOrdersTwin>>)>> >>),
          Rec(<< <<"schema", PL(<<TableAnon("k2")>>)>> >>) >>)

Documents == {DocOne, DocList, DocTags, DocTwins}

Rule(src, dst) ==
    [ODCS_Path |-> src, Atlan_Path |-> dst, New_Value |-> None,
     Default_Value |-> None, Level |-> None, Index |-> None]

ColumnPath(key) == <<"schema", Marker, Dot, "properties", Marker, Dot, key>>
DescriptionRule == Rule(ColumnPath("description"), <<"columns", Marker, Dot, "description">>)
ColumnQualityRule ==
    [Rule(<<"schema", Marker, Dot, "properties", Marker, Dot, "quality", Marker>>,
          <<"quality", Marker>>) EXCEPT !.Level = S("column")]
ProductTable == Rec(<< <<"product1", S("P1")>> >>)

\* the rules mapping tables are made of, in the order they take in a table
AllRules ==
    << Rule(<<"dataProduct">>, <<"product", Dot, "name">>),
       [Rule(<<"dataProduct">>, <<"product", Dot, "code">>)
            EXCEPT !.New_Value = ProductTable, !.Default_Value = S("D")],
       Rule(<<"tags">>, <<"labels">>),
       Rule(<<"owner">>, <<"labels">>),
       Rule(<<"dataProduct">>, <<"labels", Marker>>),
       Rule(<<"dataProduct">>, <<"labels", Dot, "product">>),
       Rule(ColumnPath("name"), <<"columns", Marker, Dot, "name">>),
       DescriptionRule,
       [DescriptionRule EXCEPT !.Index = IntV(0)],
       [DescriptionRule EXCEPT !.Index = IntV(1)],
       [DescriptionRule EXCEPT !.Index = IntV(-1)],
       [DescriptionRule EXCEPT !.Index = IntV(-2)],
       ColumnQualityRule,
       [ColumnQualityRule EXCEPT !.New_Value = S("N")],
       [ColumnQualityRule EXCEPT !.New_Value = ProductTable],
       [ColumnQualityRule EXCEPT !.Atlan_Path = <<"checks", Marker, Dot, "check">>],
       [Rule(<<"schema", Marker, Dot, "quality", Marker>>, <<"table_quality", Marker>>)
            EXCEPT !.Level = S("table")],
       Rule(<<"slaProperties", Marker, Dot, "property">>, <<"sla", Dot, "property">>),
       Rule(<<"slaProperties", Marker, Dot, "value">>, <<"sla", Dot, "value">>),
       [Rule(<<"slaProperties", Marker, Dot, "value">>, <<"sla", Dot, "detail", Dot, "unit">>)
            EXCEPT !.New_Value = S("hours")] >>

\* the most rules a mapping table has
MaxRules == 2

RECURSIVE Pick(_, _)
\* the rules of AllRules at the positions of the set, in order
Pick(rules, positions) ==
    IF rules = <<>> THEN <<>>
    ELSE (IF Len(rules) \in positions THEN Pick(SubSeq(rules, 1, Len(rules) - 1), positions)
                                             \o <<rules[Len(rules)]>>
          ELSE Pick(SubSeq(rules, 1, Len(rules) - 1), positions))

MappingTables ==
    {Pick(AllRules, ps) : ps \in {x \in SUBSET (1..Len(AllRules)) : Cardinality(x) <= MaxRules}}

RECURSIVE LoadRules(_, _, _)
\* json.load of the mapping table: the values of New_Value and Default_Value
\* are objects of the heap
LoadRules(h, rules, i) ==
    IF i > Len(rules) THEN [h |-> h, r |-> rules]
    ELSE LET n == Load(h, rules[i].New_Value)
             d == Load(n.h, rules[i].Default_Value)
         IN  LoadRules(d.h, [rules EXCEPT ![i].New_Value = n.r, ![i].Default_Value = d.r],
                       i + 1)

\* the variables of the path layer and the value transform when run executes
NoCalls == tree = None /\ setcall = NoCall /\ getcall = NoCall /\ hcall = NoCall

\* lines 174-184: the document and the mapping table are read
InitRun ==
    /\ \E doc \in Documents, table \in MappingTables :
           LET d == Load(<<>>, doc)
               m == LoadRules(d.h, table, 1)
           IN  /\ heap = m.h
               /\ mappings = m.r
               /\ assets = IF IsList(d.h, d.r) THEN d.h[d.r.v].v ELSE <<d.r>>
    /\ contracts_by_asset = <<>>
    /\ frame = [ai |-> 1, ti |-> 0, ri |-> 1, si |-> 0, built |-> 0,
                table_name |-> None, asset_root |-> None, contract |-> None,
                sla_rules |-> None, default_element |-> None]
    /\ step = NoCall
    /\ files = <<>>
    /\ pc = "tables"
    /\ NoCalls
    /\ NoApply

\* the heap and the contracts before a step
Pre == [heap |-> heap, contracts_by_asset |-> contracts_by_asset]

\* an uncaught exception ends run
Crash(h, op) ==
    /\ heap' = h
    /\ pc' = "crashed"
    /\ step' = [op |-> op, err |-> TRUE, pre |-> Pre]
    /\ UNCHANGED <<assets, mappings, contracts_by_asset, frame, files>>

\* the schema list of the asset at hand: asset.get("schema", [])
schema_list == Get(heap, assets[frame.ai], "schema", None)
tables_left ==
    /\ IsList(heap, schema_list)
    /\ frame.ti < ListLen(heap, schema_list)

\* {"schema": [table], **{k: v for k, v in asset.items() if k != "schema"}}
asset_root_of(h, asset, table) ==
    LET l == Alloc(h, [t |-> "list", v |-> <<table>>])
        old == h[asset.v].v
    IN  Alloc(l.h, [t |-> "dict",
                    v |-> [k \in (DOMAIN old) \cup {"schema"} |->
                               IF k = "schema" THEN l.r ELSE old[k]]])

\* lines 186-190 and 60: the next table of the asset, its view and an empty
\* contract
BeginTable ==
    /\ pc = "tables"
    /\ frame.ai <= Len(assets)
    /\ IsDict(heap, assets[frame.ai])
    /\ tables_left
    /\ LET table == Elem(heap, schema_list, frame.ti)
           root == asset_root_of(heap, assets[frame.ai], table)
           c == Alloc(root.h, EmptyDict)
       IN  IF ~IsDict(heap, table) THEN Crash(heap, "table")
           ELSE /\ heap' = c.h
                /\ frame' = [frame EXCEPT !.table_name = Get(heap, table, "name", S("unknown")),
                                          !.asset_root = root.r,
                                          !.contract = c.r,
                                          !.ri = 1]
                /\ pc' = "build"
                /\ step' = [op |-> "table", err |-> FALSE, pre |-> Pre]
                /\ UNCHANGED <<assets, mappings, contracts_by_asset, files>>
    /\ UNCHANGED <<pathvars, hcall, applyvars>>

\* lines 61-109: build_contract applies the next rule of the table
ApplyMapping ==
    /\ pc = "build"
    /\ frame.ri <= Len(mappings)
    /\ LET r == apply_mapping(heap, frame.asset_root, frame.contract, mappings[frame.ri])
       IN  /\ heap' = r.h
           /\ pc' = IF r.err THEN "crashed" ELSE "build"
           /\ frame' = [frame EXCEPT !.ri = @ + 1]
           /\ step' = [op |-> "mapping", err |-> r.err, pre |-> Pre,
                       m |-> mappings[frame.ri], writes |-> r.writes]
    /\ UNCHANGED <<assets, mappings, contracts_by_asset, files, pathvars, hcall, applyvars>>

\* lines 110 and 192: contracts_by_asset[table_name] = contract
EndTable ==
    /\ pc = "build"
    /\ frame.ri > Len(mappings)
    /\ IF IsRef(frame.table_name) THEN Crash(heap, "end_table")     \* unhashable key
       ELSE /\ contracts_by_asset' =
                   [k \in (DOMAIN contracts_by_asset) \cup {frame.table_name} |->
                        IF k = frame.table_name THEN frame.contract
                        ELSE contracts_by_asset[k]]
            /\ frame' = [frame EXCEPT !.ti = @ + 1, !.built = @ + 1]
            /\ pc' = "tables"
            /\ step' = [op |-> "end_table", err |-> FALSE, pre |-> Pre]
            /\ UNCHANGED <<heap, assets, mappings, files>>
    /\ UNCHANGED <<pathvars, hcall, applyvars>>

\* line 186: the tables of the asset are done (or it has none, or asset.get
\* raises because the asset is no mapping)
EndAsset ==
    /\ pc = "tables"
    /\ frame.ai <= Len(assets)
    /\ ~(IsDict(heap, assets[frame.ai]) /\ tables_left)
    /\ IF \/ ~IsDict(heap, assets[frame.ai])
          \/ ~(IsNone(schema_list) \/ IsList(heap, schema_list)
               \/ IsEmptyIterable(heap, schema_list))
       THEN Crash(heap, "end_asset")
       ELSE /\ frame' = [frame EXCEPT !.ai = @ + 1, !.ti = 0]
            /\ step' = [op |-> "end_asset", err |-> FALSE, pre |-> Pre]
            /\ UNCHANGED <<heap, pc, assets, mappings, contracts_by_asset, files>>
    /\ UNCHANGED <<pathvars, hcall, applyvars>>

\* line 195: the loop over the tables is over, the SLA pass starts
BeginSlaPass ==
    /\ pc = "tables"
    /\ frame.ai > Len(assets)
    /\ pc' = "sla"
    /\ frame' = [frame EXCEPT !.ai = 1]
    /\ step' = [op |-> "sla_pass", err |-> FALSE, pre |-> Pre]
    /\ UNCHANGED <<heap, assets, mappings, contracts_by_asset, files, pathvars, hcall, applyvars>>

\* lines 129-135: process_sla is called for the next asset
BeginSla ==
    /\ pc = "sla"
    /\ frame.ai <= Len(assets)
    /\ LET odcs == assets[frame.ai]
           d == Alloc(heap, EmptyList)
           absent == ~HasKey(heap, odcs, "slaProperties")
           sla_rules == IF absent THEN d.r ELSE Item(heap, odcs, "slaProperties")
           h1 == IF absent THEN d.h ELSE heap
       IN  IF sla_mappings_of(mappings) = <<>>
           THEN /\ frame' = [frame EXCEPT !.ai = @ + 1]
                /\ UNCHANGED <<heap, pc>>
           ELSE /\ heap' = h1
                /\ frame' = [frame EXCEPT !.sla_rules = sla_rules, !.si = 0,
                                          !.default_element =
                                              Get(heap, odcs, "slaDefaultElement", None)]
                /\ pc' = "slarule"
    /\ step' = [op |-> "sla", err |-> FALSE, pre |-> Pre]
    /\ UNCHANGED <<assets, mappings, contracts_by_asset, files, pathvars, hcall, applyvars>>

sla_rules_left ==
    /\ IsList(heap, frame.sla_rules)
    /\ frame.si < ListLen(heap, frame.sla_rules)

\* lines 137-169: process_sla handles the next SLA entry
SlaRule ==
    /\ pc = "slarule"
    /\ sla_rules_left
    /\ LET rule == Elem(heap, frame.sla_rules, frame.si)
           r == sla_rule(heap, rule, frame.default_element, sla_mappings_of(mappings),
                         contracts_by_asset)
       IN  /\ heap' = r.h
           /\ pc' = IF r.err THEN "crashed" ELSE "slarule"
           /\ step' = [op |-> "sla_rule", err |-> r.err, pre |-> Pre, rule |-> rule,
                       target |-> sla_asset_name(heap, rule, frame.default_element),
                       wrote |-> r.wrote]
    /\ frame' = [frame EXCEPT !.si = @ + 1]
    /\ UNCHANGED <<assets, mappings, contracts_by_asset, files, pathvars, hcall, applyvars>>

\* line 137: the loop over the entries is over (or the entries cannot be
\* iterated), process_sla returns
EndSla ==
    /\ pc = "slarule"
    /\ ~sla_rules_left
    /\ IF ~(IsList(heap, frame.sla_rules) \/ IsEmptyIterable(heap, frame.sla_rules))
       THEN Crash(heap, "end_sla")
       ELSE /\ frame' = [frame EXCEPT !.ai = @ + 1]
            /\ pc' = "sla"
            /\ step' = [op |-> "end_sla", err |-> FALSE, pre |-> Pre]
            /\ UNCHANGED <<heap, assets, mappings, contracts_by_asset, files>>
    /\ UNCHANGED <<pathvars, hcall, applyvars>>

\* lines 199-203: every contract tree is written to its file
WriteYaml ==
    /\ pc = "sla"
    /\ frame.ai > Len(assets)
    /\ files' = [name \in DOMAIN contracts_by_asset |->
                     Deref(heap, contracts_by_asset[name])]
    /\ pc' = "done"
    /\ step' = [op |-> "write", err |-> FALSE, pre |-> Pre]
    /\ UNCHANGED <<heap, assets, mappings, contracts_by_asset, frame, pathvars, hcall, applyvars>>

NextRun ==
    \/ BeginTable
    \/ ApplyMapping
    \/ EndTable
    \/ EndAsset
    \/ BeginSlaPass
    \/ BeginSla
    \/ SlaRule
    \/ EndSla
    \/ WriteYaml

SpecRun == InitRun /\ [][NextRun]_vars

\* C4: with a substitution table, handle_new_value returns the table entry
\* when the resolved value is a key of the table, else the default when one
\* is configured, else null; a New_Value that is no table is returned as it
\* is, and without New_Value the resolved value is returned.
C4_TotalOverride ==
    pc = "hnv_done"
    => /\ ~hcall.err
       /\ hcall.ret =
              IF IsDict(heap, hcall.new_val)
              THEN IF InTable(heap, hcall.val, hcall.new_val)
                   THEN Item(heap, hcall.new_val, Join(hcall.val.v))
                   ELSE IF ~IsNone(hcall.default_val) THEN hcall.default_val
                   ELSE None
              ELSE IF ~IsNone(hcall.new_val) THEN hcall.new_val
              ELSE hcall.val

(***************************************************************************)
(* Claims on build_contract                                                *)
(***************************************************************************)
\* the last step applied a rule of the column-quality branch
ColumnQualityStep ==
    /\ step.op = "mapping"
    /\ ~is_sla_path(step.m.ODCS_Path)
    /\ step.m.Level = S("column")
    /\ mentions_quality(step.m.ODCS_Path)

\* the last step applied a rule of the generic branch
GenericStep ==
    /\ step.op = "mapping"
    /\ ~is_sla_path(step.m.ODCS_Path)
    /\ ~(step.m.Level \in {S("column"), S("table")} /\ mentions_quality(step.m.ODCS_Path))

RECURSIVE Flatten(_)
Flatten(seqs) == IF seqs = <<>> THEN <<>> ELSE seqs[1] \o Flatten(Tail(seqs))

\* the elements of the list at key of the dict d, none when the key is absent
ElemsAt(h, d, key) == IF HasKey(h, d, key) THEN h[Item(h, d, key).v].v ELSE <<>>

\* the (quality entry, owner column name) pairs of the asset, in source order
QualityTriples(h, asset) ==
    LET tables == ElemsAt(h, asset, "schema")
        cols(t) == ElemsAt(h, tables[t], "properties")
        entries(t, c) == ElemsAt(h, cols(t)[c], "quality")
    IN  Flatten([t \in 1..Len(tables) |->
            Flatten([c \in 1..Len(cols(t)) |->
                [e \in 1..Len(entries(t, c)) |->
                    <<Deref(h, entries(t, c)[e]), Get(h, cols(t)[c], "name", None)>>]])])

\* the entry with the field column holding the name
Tagged(entry, name) ==
    PD([k \in (DOMAIN entry.v) \cup {"column"} |->
            IF k = "column" THEN name ELSE entry.v[k]])

\* the values the last step handed to set_value, as trees
Emitted == [i \in 1..Len(step.writes) |-> Deref(heap, step.writes[i].value)]

\* the records of the triples of the asset of the last step
TaggedTriples ==
    LET triples == QualityTriples(step.pre.heap, frame.asset_root)
    IN  [i \in 1..Len(triples) |-> Tagged(triples[i][1], triples[i][2])]

\* C5 as it is stated: a column-quality rule that build_contract gets through
\* emits one record per (table, column, quality entry) triple, in source
\* order, each with the name of its column in the field column.
C5_Original == (ColumnQualityStep /\ ~step.err) => Emitted = TaggedTriples

\* the list the contract holds at the key, as a tree
ListOf(h, contract, key) == IF HasKey(h, contract, key) THEN Deref(h, Item(h, contract, key)).v
                            ELSE <<>>

\* C5: a column-quality rule whose New_Value is absent or no table makes one
\* set_value call per (table, column, quality entry) triple, in source order,
\* and raises nothing; without New_Value the value of a call is a copy of the
\* entry with the name of its column in the field column, with a New_Value it
\* is the New_Value; under the target path quality[] the values are appended,
\* in that order, to the list the contract holds there.
C5_ColumnQuality ==
    (ColumnQualityStep /\ ~IsDict(step.pre.heap, step.m.New_Value)) =>
        /\ ~step.err
        /\ Len(Emitted) = Len(TaggedTriples)
        /\ \A i \in 1..Len(Emitted) :
               Emitted[i] = IF IsNone(step.m.New_Value) THEN TaggedTriples[i]
                            ELSE step.m.New_Value
        /\ step.m.Atlan_Path = <<"quality", Marker>> =>
               ListOf(heap, frame.contract, "quality")
                   = ListOf(step.pre.heap, frame.contract, "quality") \o Emitted

\* one table, two columns with one quality entry each: two records, each with
\* the name of its own column
C5_Witness ==
    /\ ColumnQualityStep
    /\ IsNone(step.m.New_Value)
    /\ ~step.err
    /\ Len(Emitted) = 2
    /\ Emitted[1].v["column"] = S("id")
    /\ Emitted[2].v["column"] = S("amt")
    /\ ListOf(heap, frame.contract, "quality") = Emitted

\* C6: every write of a generic rule that raises nothing is made at the index
\* captured with the match it writes, when the rule fans out and when it
\* selects one match by Index.
C6_CapturedIndex ==
    (GenericStep /\ ~step.err) => \A i \in 1..Len(step.writes) : step.writes[i].idx = step.writes[i].from[2]

\* the matches of the rule of the last step
Matches == get_value(step.pre.heap, frame.asset_root, step.m.ODCS_Path)

\* C7: a generic rule with an explicit Index k raises nothing and writes at
\* most once; with k out of the range of the matches it writes nothing and the
\* contract tree is as before; with k in 0..n-1 it writes the k-th match.
C7_ExplicitIndex ==
    (GenericStep /\ ~IsNone(step.m.Index)) =>
        LET k == step.m.Index.v
            n == Len(Matches)
        IN  /\ ~step.err
            /\ Len(step.writes) <= 1
            /\ (k >= n \/ k < -n) =>
                   /\ step.writes = <<>>
                   /\ Deref(heap, frame.contract) = Deref(step.pre.heap, frame.contract)
            /\ (0 <= k /\ k < n) =>
                   /\ Len(step.writes) = 1
                   /\ step.writes[1].from = Matches[k + 1]

(***************************************************************************)
(* Claims on process_sla and run                                           *)
(***************************************************************************)
\* the last step handled an SLA entry and appended its object
SlaWrote == step.op = "sla_rule" /\ ~step.err /\ step.wrote

\* the contract of the asset the entry of the last step names
SlaContract == contracts_by_asset[step.target.name]

\* the entry of the last step, as a tree
SlaEntry == Deref(step.pre.heap, step.rule)

\* the list at the key sla of the contract, as a sequence of trees; nothing
\* when the key is absent or holds no list
SlaList(h, contract) ==
    IF HasKey(h, contract, "sla") /\ IsList(h, Item(h, contract, "sla"))
    THEN Deref(h, Item(h, contract, "sla")).v
    ELSE <<>>

RECURSIVE PlainPut(_, _, _)
\* the mapping d with val at the keys parts
PlainPut(d, parts, val) ==
    LET k == Join(parts[1])
        below == IF k \in DOMAIN d /\ d[k].t = "dict" THEN d[k].v ELSE <<>>
        new == IF Len(parts) = 1 THEN val ELSE PD(PlainPut(below, Tail(parts), val))
    IN  [x \in (DOMAIN d) \cup {k} |-> IF x = k THEN new ELSE d[x]]

RECURSIVE SlaObject(_, _, _)
\* the object of an entry under the SLA rules smaps, the first j of them applied
SlaObject(entry, smaps, j) ==
    IF j = 0 THEN <<>>
    ELSE LET m == smaps[j]
             src_key == Join(SubSeq(m.ODCS_Path, 4, Len(m.ODCS_Path)))
             dst == IF SubSeq(m.Atlan_Path, 1, 2) = <<"sla", Dot>>
                    THEN SubSeq(m.Atlan_Path, 3, Len(m.Atlan_Path))
                    ELSE m.Atlan_Path
             val == IF IsNone(m.New_Value) THEN entry.v[src_key]
                    ELSE Deref(step.pre.heap, m.New_Value)
             sofar == SlaObject(entry, smaps, j - 1)
         IN  IF src_key \in DOMAIN entry.v THEN PlainPut(sofar, split(dst), val)
             ELSE sofar

SlaUnknown ==
    /\ step.op = "sla_rule"
    /\ step.target.kind = "name"
    /\ step.target.name \notin DOMAIN step.pre.contracts_by_asset

\* C9: an SLA entry whose asset name is no key of contracts_by_asset raises
\* nothing and writes nothing: every object and contracts_by_asset are as
\* before the entry, and the name is still no key.
C9_UnknownAssetSkipped ==
    SlaUnknown =>
        /\ ~step.err
        /\ ~step.wrote
        /\ heap = step.pre.heap
        /\ contracts_by_asset = step.pre.contracts_by_asset
        /\ step.target.name \notin DOMAIN contracts_by_asset

\* an entry without element, named through slaDefaultElement, on an asset that
\* was not built, after an object was appended for another entry
C9_Witness ==
    /\ SlaUnknown
    /\ ~HasKey(step.pre.heap, step.rule, "element")
    /\ step.target.name = S("ghost")
    /\ \E name \in DOMAIN contracts_by_asset :
           SlaList(heap, contracts_by_asset[name]) # <<>>

RECURSIVE TablesOf(_, _)
\* the tables of the first n assets
TablesOf(h, n) ==
    IF n = 0 THEN <<>>
    ELSE TablesOf(h, n - 1) \o ElemsAt(h, assets[n], "schema")

\* path.startswith("slaProperties[].")
SlaSource(path) == Len(path) >= 3 /\ SubSeq(path, 1, 3) = <<"slaProperties", Marker, Dot>>

\* C10: when process_sla is running or about to, build_contract has returned
\* for every table of every asset and each table has its contract; and a step
\* of build_contract on a rule whose source path starts with slaProperties[].
\* raises nothing, calls set_value never and leaves every object as it was.
C10_SlaAfterBuild ==
    /\ pc \in {"sla", "slarule"} =>
           /\ frame.built = Len(TablesOf(heap, Len(assets)))
           /\ \A i \in 1..Len(TablesOf(heap, Len(assets))) :
                  Get(heap, TablesOf(heap, Len(assets))[i], "name", S("unknown"))
                      \in DOMAIN contracts_by_asset
    /\ (step.op = "mapping" /\ SlaSource(step.m.ODCS_Path)) =>
           /\ ~step.err
           /\ step.writes = <<>>
           /\ heap = step.pre.heap

\* both tables of the asset were built under a table with an SLA rule before
\* the first object of the SLA pass is appended
C10_Witness ==
    /\ pc = "slarule"
    /\ SlaWrote
    /\ frame.built = 2
    /\ \E i \in 1..Len(mappings) : SlaSource(mappings[i].ODCS_Path)
    /\ DOMAIN contracts_by_asset = {S("orders"), S("users")}

(***************************************************************************)
(* Claims on exceptions and on shared nodes                                *)
(***************************************************************************)
\* C11: no step of build_contract raises: neither the value transform nor a
\* write nor the selection of a match by Index lets an exception escape.
C11_NoException == step.op = "mapping" => ~step.err

\* the objects the object at address a refers to
Children(h, a) == {h[a].v[k].v : k \in {x \in DOMAIN h[a].v : IsRef(h[a].v[x])}}

RECURSIVE ReachFrom(_, _, _)
\* the addresses reached from the addresses nodes in at most fuel steps
ReachFrom(h, nodes, fuel) ==
    LET next == nodes \cup UNION {Children(h, a) : a \in nodes}
    IN  IF fuel = 0 \/ next = nodes THEN nodes ELSE ReachFrom(h, next, fuel - 1)

\* the nodes of the trees at the references roots
NodesOf(h, roots) == ReachFrom(h, {r.v : r \in roots}, Len(h))

\* the nodes of the source document before the last step
DocumentNodes == NodesOf(step.pre.heap, {assets[i] : i \in 1..Len(assets)})

\* the contract trees the last step does not build: every stored tree but the
\* one of the table at hand, or but the one the SLA entry names
OtherContracts ==
    LET stored == step.pre.contracts_by_asset
    IN  IF step.op = "mapping"
        THEN {stored[n] : n \in DOMAIN stored} \ {frame.contract}
        ELSE {stored[n] : n \in (DOMAIN stored) \ {step.target.name}}

\* C12: a step that writes for one table (a rule of build_contract, or an SLA
\* entry) changes no node of the source document and no node of the contract
\* tree of another table.
C12_NoSharedNode ==
    step.op \in {"mapping", "sla_rule"} =>
        \A a \in DocumentNodes \cup NodesOf(step.pre.heap, OtherContracts) :
            heap[a] = step.pre.heap[a]

(***************************************************************************)
(* Claims on the files run writes                                          *)
(***************************************************************************)
\* the names of the tables of the assets without the field dataProduct
UnlabelledTables ==
    UNION { {Get(heap, ElemsAt(heap, assets[i], "schema")[t], "name", S("unknown")) :
                 t \in 1..Len(ElemsAt(heap, assets[i], "schema"))} :
            i \in {j \in 1..Len(assets) : ~HasKey(heap, assets[j], "dataProduct")} }

\* C13: when run is over, no file is written for a table of an asset that has
\* no dataProduct.
C13_UnlabelledNotWritten ==
    pc = "done" => \A name \in UnlabelledTables : name \notin DOMAIN files

(***************************************************************************)
(* extract_and_append_config: the connection entry of a document in the    *)
(* side configuration file                                                 *)
(***************************************************************************)
Slash == "/"

RECURSIVE split_slash(_)
\* physical_name.split('/')
split_slash(toks) ==
    IF \A i \in 1..Len(toks) : toks[i] # Slash
    THEN <<toks>>
    ELSE LET i == CHOOSE j \in 1..Len(toks) :
                      toks[j] = Slash /\ \A k \in 1..(j - 1) : toks[k] # Slash
         IN  <<SubSeq(toks, 1, i - 1)>> \o split_slash(SubSeq(toks, i + 1, Len(toks)))

RECURSIVE join_slash(_)
\* '/'.join(parts)
join_slash(parts) ==
    IF Len(parts) = 1 THEN parts[1]
    ELSE parts[1] \o <<Slash>> \o join_slash(Tail(parts))

\* the name of the configuration file, and what a file that cannot be parsed
\* holds
ConfigPath == S("config.yaml")
Corrupt == [t |-> "corrupt", v |-> <<>>]

\* lines 245-252: the mapping read from the configuration file
existing_config(store) ==
    IF ConfigPath \notin DOMAIN store THEN PD(<<>>)
    ELSE LET c == store[ConfigPath]
         IN  IF c = Corrupt THEN PD(<<>>)
             ELSE IF c.t = "none" \/ (c.t \in {"dict", "list", "str"} /\ DOMAIN c.v = {})
             THEN PD(<<>>)
             ELSE c

\* lines 232-242: the entry of the document
new_entry(connection_name, parts) ==
    Rec(<< <<"type", S("bigquery")>>,
           <<"connection", Rec(<< <<"name", connection_name>>,
                                  <<"qualified_name",
                                    Str(join_slash(SubSeq(parts, 1, 3)))>> >>)>>,
           <<"database", Str(parts[4])>>,
           <<"schema", Str(parts[5])>> >>)

\* lines 211-259 for the document data and the files store: the files the
\* call leaves, whether it raised and whether it wrote the configuration file.
\* The table names and connection names of the model are strings.
extract_and_append_config(h, data, store) ==
    LET physical_name == Get(h, data, "physicalName", Str(<<>>))
        connection_name == Get(h, data, "connection_name", Str(<<>>))
        schema == Item(h, data, "schema")
        no_schema == ~HasKey(h, data, "schema")
        first == Elem(h, schema, 0)
        data_source == IF no_schema THEN Str(<<>>) ELSE Get(h, first, "name", Str(<<>>))
        parts == split_slash(physical_name.v)
        key == "data_source " \o Join(data_source.v)
        existing == existing_config(store)
        raised == [store |-> store, err |-> TRUE, wrote |-> FALSE]
        returned == [store |-> store, err |-> FALSE, wrote |-> FALSE]
    IN  IF ~IsDict(h, data) THEN raised
        ELSE IF ~no_schema /\ ~(IsList(h, schema) /\ ListLen(h, schema) > 0
                                /\ IsDict(h, first))
        THEN raised                                   \* line 213
        ELSE IF ~Truthy(h, physical_name) \/ ~Truthy(h, connection_name) THEN returned
        ELSE IF ~IsStr(physical_name) THEN raised     \* line 221
        ELSE IF Len(parts) < 5 THEN returned
        ELSE IF existing.t # "dict" THEN raised      \* line 255
        ELSE [store |-> [f \in (DOMAIN store) \cup {ConfigPath} |->
                            IF f = ConfigPath
                            THEN PD([k \in (DOMAIN existing.v) \cup {key} |->
                                        IF k = key THEN new_entry(connection_name, parts)
                                        ELSE existing.v[k]])
                            ELSE store[f]],
              err |-> FALSE, wrote |-> TRUE]

\* a value for a key the document does not have
Missing == [t |-> "missing", v |-> <<>>]

IsPresent(pair) == pair[2] # Missing

\* a document with the given physicalName, connection_name and schema
ConfigDocument(physical_name, connection_name, schema) ==
    Rec(SelectSeq(<< <<"dataProduct", S("product1")>>,
                     <<"physicalName", physical_name>>,
                     <<"connection_name", connection_name>>,
                     <<"schema", schema>> >>, IsPresent))

\* the text of a physical name of n segments
Segments(n) == SubSeq(<<"conn", Slash, "bigquery", Slash, "123", Slash, "projA", Slash,
                        "salesSchema", Slash, "orders", Slash, "part", Slash, "p1">>,
                      1, 2 * n - 1)

\* the longest physical name, in segments
MaxSegments == 6

PhysicalNames ==
    {Missing, Str(<<>>), IntV(7), Str(<<"conn", Slash, "bigquery", Slash, Slash, "projA", Slash>>)}
        \cup {Str(Segments(n)) : n \in 1..MaxSegments}

ConnectionNames == {Missing, Str(<<>>), S("bq-prod")}

ConfigSchemas ==
    {Missing, PL(<<>>), PL(<<TableEvents>>), PL(<<Rec(<< <<"physicalName", S("x")>> >>)>>),
     PL(<<S("orders")>>)}

\* an entry of the configuration file written for another document
OtherEntry == Rec(<< <<"type", S("snowflake")>>, <<"database", S("old")>> >>)

\* what the files hold before the call: no configuration file, an empty one,
\* one that does not parse, one with entries (of another document, and of a
\* document with the same table name), one that holds a sequence
ConfigStores ==
    {<<>>} \cup
    {[f \in {ConfigPath} |-> c] :
        c \in {None, Corrupt, PL(<<S("x")>>),
               Rec(<< <<"data_source other", OtherEntry>> >>),
               Rec(<< <<"data_source other", OtherEntry>>,
                      <<"data_source events", OtherEntry>> >>)}}

InitConfig ==
    /\ \E p \in PhysicalNames, c \in ConnectionNames, s \in ConfigSchemas, st \in ConfigStores :
           LET d == Load(<<>>, ConfigDocument(p, c, s))
           IN  /\ heap = d.h
               /\ assets = <<d.r>>
               /\ files = st
    /\ mappings = <<>>
    /\ contracts_by_asset = <<>>
    /\ frame = <<>>
    /\ step = NoCall
    /\ pc = "config"
    /\ NoCalls
    /\ NoApply

\* lines 205-261: extract_and_append_config(odcs)
ExtractAndAppendConfig ==
    /\ pc = "config"
    /\ LET r == extract_and_append_config(heap, assets[1], files)
       IN  /\ files' = r.store
           /\ step' = [op |-> "config", err |-> r.err, wrote |-> r.wrote,
                       pre |-> [files |-> files]]
    /\ pc' = "config_done"
    /\ UNCHANGED <<heap, assets, mappings, contracts_by_asset, frame, pathvars, hcall, applyvars>>

NextConfig == ExtractAndAppendConfig

SpecConfig == InitConfig /\ [][NextConfig]_vars

\* the field of the document of the call, Missing when the key is absent
ConfigField(key) == Get(heap, assets[1], key, Missing)

\* the field is absent or empty
Unset(x) == x = Missing \/ x = Str(<<>>)

\* the number of slash-delimited segments of a text
SegmentCount(x) == Cardinality({i \in 1..Len(x.v) : x.v[i] = Slash}) + 1

\* the entry the call wrote for the document
WrittenEntry ==
    LET name == Get(heap, Elem(heap, Item(heap, assets[1], "schema"), 0), "name", Str(<<>>))
        key == "data_source " \o (IF HasKey(heap, assets[1], "schema") THEN Join(name.v) ELSE "")
    IN  [key |-> key, entry |-> files[ConfigPath].v[key]]

\* C14: extract_and_append_config writes an entry only for a physicalName of
\* at least five segments, with qualified_name the first three joined by '/',
\* database the fourth and schema the fifth; with fewer than five segments, or
\* with physicalName or connection_name missing, it raises nothing and leaves
\* the files as they are; and a call that writes keeps every other entry of
\* the configuration file.
C14_ConfigEntry ==
    step.op = "config" =>
        LET physical_name == ConfigField("physicalName")
            parts == split_slash(physical_name.v)
            before == existing_config(step.pre.files).v
        IN  /\ step.wrote =>
                   /\ IsStr(physical_name) /\ SegmentCount(physical_name) >= 5
                   /\ WrittenEntry.entry.v["connection"].v["qualified_name"]
                          = Str(parts[1] \o <<Slash>> \o parts[2] \o <<Slash>> \o parts[3])
                   /\ WrittenEntry.entry.v["database"] = Str(parts[4])
                   /\ WrittenEntry.entry.v["schema"] = Str(parts[5])
                   /\ \A k \in (DOMAIN before) \ {WrittenEntry.key} :
                          /\ k \in DOMAIN files[ConfigPath].v
                          /\ files[ConfigPath].v[k] = before[k]
            /\ (\/ Unset(physical_name)
                \/ Unset(ConfigField("connection_name"))
                \/ IsStr(physical_name) /\ SegmentCount(physical_name) < 5) =>
                   /\ ~step.err
                   /\ files = step.pre.files

(***************************************************************************)
(* apply_data_contracts.py: the process_file workers of main against the   *)
(* remote catalog.  A call of the client is one step; what the remote      *)
(* answers (success or an exception) is not the program's to choose.       *)
(***************************************************************************)
\* the qualified names of the tables of the catalog
CatalogAssets == {"db/sales/orders", "db/sales/events"}

\* the most input files (one worker each)
MaxFiles == 2

\* table.data_contract_latest of a table without contract
NoContract == 0

\* create_or_update_contract dropping the dry_run tests of lines 372 and 407
create_or_update_contract_live(latest_contract, dry_run, answer) ==
    IF latest_contract = NoContract
    THEN IF answer = "ok" THEN [status |-> "CREATED", saves |-> 1]
         ELSE [status |-> "FAILED", saves |-> IF answer = "save_raises" THEN 1 ELSE 0]
    ELSE IF answer = "ok" THEN [status |-> "UPDATED", saves |-> 1]
         ELSE [status |-> "FAILED", saves |-> IF answer = "save_raises" THEN 1 ELSE 0]

\* the answers of the remote to the calls of lines 378-480: every call
\* succeeds, a call before client.asset.save raises (or the contract read has
\* no guid or no qualified name), or client.asset.save raises
Answers == {"ok", "raises", "save_raises"}

\* lines 365-480 of create_or_update_contract, the table being loaded: the
\* status returned and the number of client.asset.save calls made
create_or_update_contract(latest_contract, dry_run, answer) ==
    IF latest_contract = NoContract
    THEN IF dry_run THEN [status |-> "DRYRUN-CREATE", saves |-> 0]
         ELSE IF answer = "ok" THEN [status |-> "CREATED", saves |-> 1]
         ELSE [status |-> "FAILED", saves |-> IF answer = "save_raises" THEN 1 ELSE 0]
    ELSE IF dry_run THEN [status |-> "DRYRUN-UPDATE", saves |-> 0]
         ELSE IF answer = "ok" THEN [status |-> "UPDATED", saves |-> 1]
         ELSE [status |-> "FAILED", saves |-> IF answer = "save_raises" THEN 1 ELSE 0]

\* line 283: the separate certification call is made
certification_requested(status, dry_run, force_certify) ==
    status \in {"CREATED", "UPDATED"} /\ ~dry_run /\ force_certify

\* the input files: each names a table of the catalog, or lacks name or
\* asset_qualified_name
FileContents == CatalogAssets \cup {"missing"}

InitApply ==
    /\ \E n \in 1..MaxFiles, dry_run \in BOOLEAN, certify \in BOOLEAN :
       \E contents \in [1..n -> FileContents], latest \in [CatalogAssets -> {NoContract, 1}] :
           /\ worker = [w \in 1..n |->
                            [pc |-> "start", asset |-> contents[w], dry_run |-> dry_run,
                             certify |-> certify, latest_contract |-> NoContract,
                             status |-> ""]]
           /\ catalog = [latest |-> latest, initial |-> latest, next |-> 2,
                         saves |-> 0, certifications |-> 0]
    /\ pc = "apply"
    /\ heap = <<>>
    /\ NoRun
    /\ NoCalls

\* lines 524-530 and 353-365: the file is read; client.asset.get_by_qualified_name
\* answers with the table, or raises
GetTable(w) ==
    /\ pc = "apply"
    /\ worker[w].pc = "start"
    /\ \E answer \in {"ok", "raises"} :
           worker' = [worker EXCEPT ![w] =
               IF worker[w].asset = "missing" \/ answer = "raises"
               THEN [@ EXCEPT !.pc = "done", !.status = "FAILED"]
               ELSE [@ EXCEPT !.pc = "loaded",
                              !.latest_contract = catalog.latest[worker[w].asset]]]
    /\ UNCHANGED <<catalog, heap, pc, pathvars, hcall, runvars>>

\* lines 368-480: the contract is created or updated (client.asset.save), or
\* the dry run reports what would be done
CreateOrUpdate(w) ==
    /\ pc = "apply"
    /\ worker[w].pc = "loaded"
    /\ \E answer \in Answers :
           LET r == create_or_update_contract(worker[w].latest_contract, worker[w].dry_run,
                                              answer)
               done == r.status \in {"CREATED", "UPDATED"}
           IN  /\ worker' = [worker EXCEPT ![w] =
                       [@ EXCEPT !.status = r.status,
                                 !.pc = IF certification_requested(r.status,
                                                                   worker[w].dry_run,
                                                                   worker[w].certify)
                                        THEN "certify" ELSE "done"]]
               /\ catalog' = [catalog EXCEPT
                       !.saves = @ + r.saves,
                       !.latest[worker[w].asset] = IF done THEN catalog.next ELSE @,
                       !.next = IF done THEN @ + 1 ELSE @]
    /\ UNCHANGED <<heap, pc, pathvars, hcall, runvars>>

\* lines 283-306: the guid is resolved and certify_with_client saves the
\* certification, or no guid is found and the certification is skipped
Certify(w) ==
    /\ pc = "apply"
    /\ worker[w].pc = "certify"
    /\ \E guid_found \in BOOLEAN :
           catalog' = [catalog EXCEPT
                           !.certifications = IF guid_found THEN @ + 1 ELSE @,
                           !.saves = IF guid_found THEN @ + 1 ELSE @]
    /\ worker' = [worker EXCEPT ![w].pc = "done"]
    /\ UNCHANGED <<heap, pc, pathvars, hcall, runvars>>

\* lines 570-577: every future is done, the report is written
WriteReport ==
    /\ pc = "apply"
    /\ \A w \in DOMAIN worker : worker[w].pc = "done"
    /\ pc' = "reported"
    /\ UNCHANGED <<heap, catalog, worker, pathvars, hcall, runvars>>

NextApply ==
    \/ \E w \in DOMAIN worker : GetTable(w)
    \/ \E w \in DOMAIN worker : CreateOrUpdate(w)
    \/ \E w \in DOMAIN worker : Certify(w)
    \/ WriteReport

SpecApply == InitApply /\ [][NextApply]_vars

(***************************************************************************)
(* Claims on the apply workers                                             *)
(***************************************************************************)
\* the workers whose call for the table a ended with the status s
EndedWith(a, s) ==
    {w \in DOMAIN worker : worker[w].asset = a /\ worker[w].status = s}

\* C15: for one table, over every interleaving of the workers, a contract is
\* created only when the table has no contract yet: at most one call per
\* table ends CREATED, and none when the table had a contract at the start
C15_CreatedOnce ==
    pc \in {"apply", "reported"} =>
        \A a \in CatalogAssets :
            Cardinality(EndedWith(a, "CREATED"))
                <= (IF catalog.initial[a] = NoContract THEN 1 ELSE 0)

\* the workers run with --dry-run
DryRun == pc \in {"apply", "reported"} /\ \A w \in DOMAIN worker : worker[w].dry_run

\* C16: with --dry-run the catalog is never changed: client.asset.save is
\* never called and no certification is attempted, even with --certify; a
\* finished call ends DRYRUN-CREATE, DRYRUN-UPDATE or FAILED, and among the
\* calls that did not fail DRYRUN-CREATE is the status exactly when the table
\* has no latest contract
C16_DryRunChangesNothing ==
    DryRun =>
        /\ catalog.saves = 0
        /\ catalog.certifications = 0
        /\ catalog.latest = catalog.initial
        /\ \A w \in DOMAIN worker :
               /\ worker[w].pc # "certify"
               /\ worker[w].pc = "done" =>
                      /\ worker[w].status \in {"DRYRUN-CREATE", "DRYRUN-UPDATE", "FAILED"}
                      /\ worker[w].status # "FAILED" =>
                             (worker[w].status = "DRYRUN-CREATE"
                                  <=> catalog.latest[worker[w].asset] = NoContract)

\* a dry run with --certify has reported one table to create and one to update
C16_Witness ==
    /\ DryRun
    /\ pc = "reported"
    /\ \A w \in DOMAIN worker : worker[w].certify
    /\ \E a, b \in CatalogAssets :
           /\ EndedWith(a, "DRYRUN-CREATE") # {}
           /\ EndedWith(b, "DRYRUN-UPDATE") # {}

(***************************************************************************)
(* Claims on repeated writes                                               *)
(***************************************************************************)
\* set_value(tree, path, v, i) was called twice; setcall.pre is the tree
\* between the two calls
Twice == pc = "rewritten" /\ setcall.op = "set_value_again"

\* the last segment of the path carries the list marker
LastIsMarker(path) == endswith_marker(split(path)[Len(split(path))])

\* the tree after the second call is the tree after the first
SecondChangedNothing == Deref(heap, tree) = setcall.pre

\* the value written is an empty sequence
ValueIsEmptyList == Deref(heap, setcall.value) = PL(<<>>)

\* neither call raised
BothReturned == ~setcall.err /\ ~setcall.first.err

\* C17 as stated: with an explicit index the second call changes nothing,
\* whatever the path, a path ending in a list marker included; without an
\* index a write through a list marker grows the tree at each call
C17_Original ==
    Twice =>
        /\ ~IsNone(setcall.idx) => SecondChangedNothing
        /\ (IsNone(setcall.idx) /\ MarkerCount(setcall.path) > 0 /\ BothReturned)
               => ~SecondChangedNothing

\* C17: with an explicit index set_value is idempotent when the last segment
\* of the path is plain: the second call changes nothing and raises exactly
\* when the first did.  On a last segment with the list marker the index is
\* ignored and each call appends again.  Without an index every list marker
\* appends.  An appending call grows the tree, except that an empty sequence
\* written through a list marker that is the last segment and the only
\* marker, or the only marker not positioned by the index, adds nothing.
C17_IdempotentByPosition ==
    Twice =>
        /\ (~IsNone(setcall.idx) /\ ~LastIsMarker(setcall.path))
               => (SecondChangedNothing /\ setcall.err = setcall.first.err)
        /\ (~IsNone(setcall.idx) /\ LastIsMarker(setcall.path) /\ BothReturned)
               => (SecondChangedNothing <=> ValueIsEmptyList)
        /\ (IsNone(setcall.idx) /\ MarkerCount(setcall.path) > 0 /\ BothReturned)
               => (SecondChangedNothing
                       <=> (/\ ValueIsEmptyList
                            /\ LastIsMarker(setcall.path)
                            /\ MarkerCount(setcall.path) = 1))

\* C17 happens: a value written twice at position 1 of a list that had no
\* position 1 before, through a marker on a segment before the last
C17_Witness ==
    /\ Twice
    /\ setcall.idx = IntV(1)
    /\ setcall.path = <<"a", "[]", ".", "b">>
    /\ BothReturned
    /\ setcall.first.pre = PD(<<>>)
    /\ IsRef(setcall.value)
    /\ SecondChangedNothing

(***************************************************************************)
(* Claims on the contracts run keeps                                       *)
(***************************************************************************)
\* C18: run keeps one contract tree per table processed: whenever a table has
\* been built and stored, contracts_by_asset has as many entries as tables
\* were built, none replaced because of another table, two tables of the same
\* name and tables without a name included
C18_OneTreePerTable ==
    (step.op = "end_table" /\ ~step.err) =>
        Cardinality(DOMAIN contracts_by_asset) = frame.built
====
